---- MODULE Spec2Model ----
(***************************************************************************)
(* Model of the purchase tracker's CSV ingestion pipeline                  *)
(* (src/app/services/data_import.py), the purchases table it writes        *)
(* (src/app/models/purchase.py) and the callers of import_csv              *)
(* (src/scripts/import_csv.py, src/app/api/purchases.py).                  *)
(*                                                                         *)
(* A Python str is a sequence of one-character strings.  The element       *)
(* "sup2" stands for the single character SUPERSCRIPT TWO, for which       *)
(* str.isdigit() is true while int() raises ValueError.                    *)
(* A money amount is an integer number of hundredths (item_price) or of    *)
(* millionths (item_price * rate); the rate is in ten-thousandths.         *)
(***************************************************************************)
EXTENDS Integers, Sequences, FiniteSets, TLC

(***************************************************************************)
(* Python str primitives                                                   *)
(***************************************************************************)
DecimalDigits == <<"0", "1", "2", "3", "4", "5", "6", "7", "8", "9">>

IsDecimalChar(c) == \E k \in 1..10 : DecimalDigits[k] = c

DigitVal(c) == (CHOOSE k \in 1..10 : DecimalDigits[k] = c) - 1

\* characters for which str.isdigit() holds: the decimal digits and the
\* superscript digit
IsDigitChar(c) == IsDecimalChar(c) \/ c = "sup2"

IsSpaceChar(c) == c \in {" ", "\t"}

\* None (a null cell of the data frame); no str is equal to it
None == <<"<None>">>

\* str.isdigit(): non-empty and every character is a digit
isdigit(s) == Len(s) > 0 /\ \A k \in 1..Len(s) : IsDigitChar(s[k])

\* whether int(s) succeeds for a string that passed isdigit()
IsDecimalStr(s) == Len(s) > 0 /\ \A k \in 1..Len(s) : IsDecimalChar(s[k])

RECURSIVE LStrip(_)
LStrip(s) == IF s # <<>> /\ IsSpaceChar(Head(s)) THEN LStrip(Tail(s)) ELSE s

RECURSIVE RStrip(_)
RStrip(s) ==
    IF s # <<>> /\ IsSpaceChar(s[Len(s)]) THEN RStrip(SubSeq(s, 1, Len(s) - 1)) ELSE s

\* str.strip()
strip(s) == RStrip(LStrip(s))

\* str(cell) for a cell of the data frame
str(cell) == IF cell = None THEN <<"N", "o", "n", "e">> ELSE cell

\* s.find(c, start) with 0-based positions; -1 when absent
find(s, c, start) ==
    IF \E k \in (start + 1)..Len(s) : s[k] = c
    THEN (CHOOSE k \in (start + 1)..Len(s) :
              s[k] = c /\ \A j \in (start + 1)..(k - 1) : s[j] # c) - 1
    ELSE -1

\* s.split(sep): the pieces between the occurrences of sep, empty ones kept
RECURSIVE split(_, _)
split(s, sep) ==
    LET p == find(s, sep, 0)
    IN  IF p = -1 THEN <<s>>
        ELSE <<SubSeq(s, 1, p)>> \o split(SubSeq(s, p + 2, Len(s)), sep)

\* sep.join(pieces)
RECURSIVE join(_, _)
join(pieces, sep) ==
    IF pieces = <<>> THEN <<>>
    ELSE IF Len(pieces) = 1 THEN pieces[1]
    ELSE pieces[1] \o <<sep>> \o join(Tail(pieces), sep)

\* s.rsplit(sep, 1)[0]: everything before the last sep (s itself without sep)
rsplit1_head(s, sep) ==
    LET ps == split(s, sep)
    IN  IF Len(ps) = 1 THEN s ELSE join(SubSeq(ps, 1, Len(ps) - 1), sep)

\* needle in s
Contains(s, needle) ==
    \E k \in 1..(Len(s) - Len(needle) + 1) :
        SubSeq(s, k, k + Len(needle) - 1) = needle

RECURSIVE StripZeros(_)
StripZeros(s) == IF Len(s) > 1 /\ Head(s) = "0" THEN StripZeros(Tail(s)) ELSE s

RECURSIVE DigitsVal(_)
DigitsVal(s) == IF s = <<>> THEN 0
                ELSE DigitsVal(SubSeq(s, 1, Len(s) - 1)) * 10 + DigitVal(s[Len(s)])

\* lexicographic s <= t for digit strings of equal length
RECURSIVE DigitsLeq(_, _)
DigitsLeq(s, t) ==
    IF s = <<>> THEN TRUE
    ELSE IF DigitVal(Head(s)) < DigitVal(Head(t)) THEN TRUE
    ELSE IF DigitVal(Head(s)) > DigitVal(Head(t)) THEN FALSE
    ELSE DigitsLeq(Tail(s), Tail(t))

\* 2147483647, the largest value of the INTEGER column type
INT32_MAX_Digits == <<"2", "1", "4", "7", "4", "8", "3", "6", "4", "7">>

\* stands for every Python int above 2147483647 (Python ints are unbounded)
BigInt == -1

\* int(s) for a string of decimal digits: the exact value up to 2147483647,
\* BigInt above
int(s) ==
    LET d == StripZeros(s)
    IN  IF Len(d) < 10 \/ (Len(d) = 10 /\ DigitsLeq(d, INT32_MAX_Digits))
        THEN DigitsVal(d) ELSE BigInt

(***************************************************************************)
(* DataImporter._parse_price                                               *)
(***************************************************************************)
\* s[:n]
Prefix(s, n) == SubSeq(s, 1, IF n < Len(s) THEN n ELSE Len(s))

\* re.match(r'^(\d+\.\d{2})', s): the matched group as <<digits, two digits>>,
\* or <<>> when there is no match.  \d+ takes every leading decimal digit, so
\* the point must be the first character that is not one.
MatchAmount(s) ==
    LET p == find(s, ".", 0)
    IN  IF /\ p >= 1
           /\ IsDecimalStr(SubSeq(s, 1, p))
           /\ Len(s) >= p + 3
           /\ IsDecimalChar(s[p + 2])
           /\ IsDecimalChar(s[p + 3])
        THEN <<SubSeq(s, 1, p), SubSeq(s, p + 2, p + 3)>>
        ELSE <<>>

\* stands for every amount from 10000.00 to 99999999.99, which the store's
\* DECIMAL(10,2) can hold
LargeAmount == -1

\* stands for every amount of 100000000.00 and more, which it cannot hold
HugeAmount == -2

\* Decimal(group) in hundredths, exact below 10000.00
Decimal(m) ==
    LET d == StripZeros(m[1])
    IN  IF Len(d) <= 4 THEN DigitsVal(d) * 100 + DigitsVal(m[2])
        ELSE IF Len(d) <= 8 THEN LargeAmount
        ELSE HugeAmount

\* the parser if the string were not stripped
_parse_price_NoStrip(price_str) ==
    LET s          == price_str
        first_dot  == find(s, ".", 0)
        second_dot == IF first_dot # -1 THEN find(s, ".", first_dot + 1) ELSE -1
        price_part == Prefix(s, second_dot + 3)
        m          == MatchAmount(price_part)
    IN  IF first_dot # -1 /\ second_dot # -1 /\ m # <<>>
        THEN Decimal(m)
        ELSE 0

_parse_price(price_str) ==
    LET s          == strip(price_str)
        first_dot  == find(s, ".", 0)
        second_dot == IF first_dot # -1 THEN find(s, ".", first_dot + 1) ELSE -1
        price_part == Prefix(s, second_dot + 3)
        m          == MatchAmount(price_part)
    IN  IF first_dot # -1 /\ second_dot # -1 /\ m # <<>>
        THEN Decimal(m)
        ELSE 0

(***************************************************************************)
(* DataImporter._parse_date                                                *)
(***************************************************************************)
IsLeap(y) == (y % 4 = 0 /\ y % 100 # 0) \/ y % 400 = 0

DaysInMonth(y, m) ==
    IF m = 2 THEN (IF IsLeap(y) THEN 29 ELSE 28)
    ELSE IF m \in {4, 6, 9, 11} THEN 30 ELSE 31

\* the strptime directives: %Y is \d\d\d\d, %m is 1[0-2]|0[1-9]|[1-9],
\* %d is 3[01]|[12]\d|0[1-9]|[1-9]| [1-9]
MatchesY(p) == Len(p) = 4 /\ IsDecimalStr(p)

MatchesM(p) ==
    /\ Len(p) \in {1, 2}
    /\ IsDecimalStr(p)
    /\ DigitsVal(p) \in 1..12

MatchesD(p) ==
    \/ /\ Len(p) \in {1, 2}
       /\ IsDecimalStr(p)
       /\ DigitsVal(p) \in 1..31
    \/ /\ Len(p) = 2
       /\ p[1] = " "
       /\ IsDecimalChar(p[2])
       /\ p[2] # "0"

DayVal(p) == IF p[1] = " " THEN DigitVal(p[2]) ELSE DigitsVal(p)

\* datetime.strptime(s, fmt) for the format whose fields, in the order
\* given by <<iy, im, id>>, are separated by sep: <<date>>, or <<>> for
\* ValueError
strptime(s, sep, iy, im, id) ==
    LET ps == split(s, sep)
    IN  IF /\ Len(ps) = 3
           /\ MatchesY(ps[iy])
           /\ MatchesM(ps[im])
           /\ MatchesD(ps[id])
           /\ DigitsVal(ps[iy]) >= 1
           /\ DayVal(ps[id]) <= DaysInMonth(DigitsVal(ps[iy]), DigitsVal(ps[im]))
        THEN <<[year |-> DigitsVal(ps[iy]), month |-> DigitsVal(ps[im]),
                day |-> DayVal(ps[id])]>>
        ELSE <<>>

\* the parser if day/month/year were tried before month/day/year
_parse_date_DayFirst(date_str, now) ==
    LET iso == strptime(date_str, "-", 1, 2, 3)
        mdy == strptime(date_str, "/", 3, 1, 2)
        dmy == strptime(date_str, "/", 3, 2, 1)
    IN  IF iso # <<>> THEN iso[1]
        ELSE IF dmy # <<>> THEN dmy[1]
        ELSE IF mdy # <<>> THEN mdy[1]
        ELSE now

\* now is the value of datetime.now()
_parse_date(date_str, now) ==
    LET iso == strptime(date_str, "-", 1, 2, 3)
        mdy == strptime(date_str, "/", 3, 1, 2)
        dmy == strptime(date_str, "/", 3, 2, 1)
    IN  IF iso # <<>> THEN iso[1]
        ELSE IF mdy # <<>> THEN mdy[1]
        ELSE IF dmy # <<>> THEN dmy[1]
        ELSE now

(***************************************************************************)
(* DataImporter._clean_data: the body of the loop over the rows            *)
(***************************************************************************)
\* CNY_TO_SGD_RATE = Decimal('0.1962'), in ten-thousandths
CNY_TO_SGD_RATE == 1962

\* 'SN|date|tracking_number'
HeaderPrefix ==
    <<"S", "N", "|", "d", "a", "t", "e", "|",
      "t", "r", "a", "c", "k", "i", "n", "g", "_", "n", "u", "m", "b", "e", "r">>

\* the least number of pipe-delimited parts of a row that is parsed
MinParts == 5

\* the least number of comma-separated parts of a data part that is parsed
MinDataParts == 4

\* not row or all(str(cell).strip() == '' for cell in row)
IsEmptyRow(row) ==
    row = <<>> \/ \A k \in 1..Len(row) : strip(str(row[k])) = <<>>

\* '|'.join(str(cell) for cell in row)
RowStr(row) == join([k \in 1..Len(row) |-> str(row[k])], "|")

\* the conversion if the rate were left out
PriceSgd_NoRate(price) == IF price < 0 THEN price ELSE price * 10000

\* price * self.CNY_TO_SGD_RATE, in millionths
PriceSgd(price) == IF price < 0 THEN price ELSE price * CNY_TO_SGD_RATE

\* int(data_parts[-2]) if data_parts[-2].isdigit() else 1
Quantity(quantity_str) == IF isdigit(quantity_str) THEN int(quantity_str) ELSE 1

\* the order id if the last segment were taken whatever it holds
OrderId_LastSegment(remaining) == split(remaining, "|")[Len(split(remaining, "|"))]

\* the order id and the data part of remaining
OrderId(remaining) ==
    LET order_id_match == split(remaining, "|")[Len(split(remaining, "|"))]
    IN  IF isdigit(order_id_match) THEN order_id_match ELSE <<>>

DataPart(remaining) ==
    LET order_id_match == split(remaining, "|")[Len(split(remaining, "|"))]
    IN  IF isdigit(order_id_match) THEN rsplit1_head(remaining, "|") ELSE remaining

\* ','.join(data_parts[:-3])
ItemName(data_parts) == join(SubSeq(data_parts, 1, Len(data_parts) - 3), ",")

\* '|'.join(parts[1:]) for the parts of the row
Remaining(row) == join(Tail(split(RowStr(row), "|")), "|")

\* data_part.split(',')
DataParts(row) == split(DataPart(Remaining(row)), ",")

\* what one pass of the loop appends to cleaned_rows when rows of at least
\* min_parts parts are parsed: <<>> when the row is skipped (by a continue,
\* by a failed length test or by an exception caught at the row level), else
\* the one record
CleanedRowWith(row, now, min_parts) ==
    IF IsEmptyRow(row) THEN <<>>
    ELSE IF Contains(RowStr(row), HeaderPrefix) THEN <<>>
    ELSE
      LET parts == split(RowStr(row), "|")
      IN  IF Len(parts) < min_parts THEN <<>>
          ELSE IF ~isdigit(parts[1]) THEN <<>>
          \* int(sn_str) raises ValueError
          ELSE IF ~IsDecimalStr(parts[1]) THEN <<>>
          ELSE
            LET remaining  == Remaining(row)
                data_parts == DataParts(row)
                n          == Len(data_parts)
            IN  IF n < MinDataParts THEN <<>>
                \* int(data_parts[-2]) raises ValueError
                ELSE IF isdigit(data_parts[n - 1]) /\ ~IsDecimalStr(data_parts[n - 1])
                     THEN <<>>
                ELSE <<[sn              |-> int(parts[1]),
                        date            |-> _parse_date(data_parts[n - 2], now),
                        tracking_number |-> <<>>,
                        company_name    |-> <<>>,
                        item_name       |-> ItemName(data_parts),
                        quantity        |-> Quantity(data_parts[n - 1]),
                        item_price      |-> _parse_price(data_parts[n]),
                        item_price_sgd  |-> PriceSgd(_parse_price(data_parts[n])),
                        cny_to_sgd_rate |-> CNY_TO_SGD_RATE,
                        export_status   |-> <<>>,
                        order_id        |-> OrderId(remaining)]>>

\* a record of defaults
PlaceholderRecord(now) ==
    [sn |-> 0, date |-> now, tracking_number |-> <<>>, company_name |-> <<>>,
     item_name |-> <<>>, quantity |-> 1, item_price |-> 0, item_price_sgd |-> 0,
     cny_to_sgd_rate |-> CNY_TO_SGD_RATE, export_status |-> <<>>,
     order_id |-> <<>>]

\* the loop body if a skipped row left a record of defaults behind
CleanedRow_KeepsSkipped(row, now) ==
    IF CleanedRowWith(row, now, MinParts) = <<>>
    THEN <<PlaceholderRecord(now)>>
    ELSE CleanedRowWith(row, now, MinParts)

\* s without the characters that are not decimal digits
DigitsOf(s) == SelectSeq(s, IsDecimalChar)

\* the loop body if the serial number were the digits found in the first cell
CleanedRow_DigitsOfSerial(row, now) ==
    IF row = <<>> THEN <<>>
    ELSE CleanedRowWith(<<DigitsOf(str(row[1]))>> \o Tail(row), now, MinParts)

\* the loop body of _clean_data
CleanedRow(row, now) == CleanedRowWith(row, now, MinParts)

(***************************************************************************)
(* The source files: a file is the data frame polars.read_csv makes of it, *)
(* every row with as many cells as the header has columns; a cell the      *)
(* line does not fill is None                                              *)
(***************************************************************************)
S_42 ==
    <<"4", "2">>

S_7 ==
    <<"7">>

S_55 ==
    <<"5", "5">>

S_100234 ==
    <<"1", "0", "0", "2", "3", "4">>

\* one more than the largest INTEGER
S_2147483648 ==
    <<"2", "1", "4", "7", "4", "8", "3", "6", "4", "8">>

S_A1 ==
    <<"A", "1">>

S_x ==
    <<"x">>

S_Blank ==
    <<" ", " ">>

S_Tab ==
    <<"\t">>

S_WirelessMouse ==
    <<"W", "i", "r", "e", "l", "e", "s", "s", " ", "M", "o", "u", "s", "e">>

\* "Wireless Mouse,2024-01-10,2,19.99"
S_WirelessMouseData ==
    <<"W", "i", "r", "e", "l", "e", "s", "s", " ", "M", "o", "u", "s", "e",
      ",", "2", "0", "2", "4", "-", "0", "1", "-", "1", "0", ",", "2", ",",
      "1", "9", ".", "9", "9">>

S_MouseWirelessBlack ==
    <<"M", "o", "u", "s", "e", ",", " ", "W", "i", "r", "e", "l", "e", "s",
      "s", ",", " ", "B", "l", "a", "c", "k">>

\* "Mouse, Wireless, Black,2024-01-10,1,9.99"
S_MouseData ==
    <<"M", "o", "u", "s", "e", ",", " ", "W", "i", "r", "e", "l", "e", "s",
      "s", ",", " ", "B", "l", "a", "c", "k", ",", "2", "0", "2", "4", "-",
      "0", "1", "-", "1", "0", ",", "1", ",", "9", ".", "9", "9">>

\* the same with several amounts glued into the price
S_MouseGluedData ==
    <<"M", "o", "u", "s", "e", ",", " ", "W", "i", "r", "e", "l", "e", "s",
      "s", ",", " ", "B", "l", "a", "c", "k", ",", "2", "0", "2", "4", "-",
      "0", "1", "-", "1", "0", ",", "1", ",", "9", ".", "9", "9", "0", ".",
      "0", "0">>

\* the quantity "0" and a day the month does not have
S_PenData ==
    <<"P", "e", "n", ",", "2", "0", "2", "4", "-", "0", "2", "-", "3", "0",
      ",", "0", ",", "2", "5", ".", "0", "0", "0", ".", "0", "0">>

\* a quantity that is not numeric, a price with one decimal point
S_InkData ==
    <<"I", "n", "k", ",", "N", "/", "A", ",", "x", ",", "5", ".", "0", "0">>

\* a quantity that passes isdigit() and fails int()
S_CapData ==
    <<"C", "a", "p", ",", "2", "0", "2", "4", "-", "0", "1", "-", "1", "0",
      ",", "sup2", ",", "1", ".", "0", "0", "0", ".", "0", "0">>

\* a data part with one comma-separated part
S_NoCommas ==
    <<"M", "o", "u", "s", "e">>

S_SN ==
    <<"S", "N">>

S_date ==
    <<"d", "a", "t", "e">>

S_tracking_number ==
    <<"t", "r", "a", "c", "k", "i", "n", "g", "_", "n", "u", "m", "b", "e",
      "r">>

\* the rows of a file whose header has three columns
Rows3 ==
    { <<S_42, S_WirelessMouseData, S_100234>>,
      <<S_7, S_MouseData, S_55>>,
      <<S_Blank, <<>>, S_Tab>>,
      <<S_Blank, None, S_Tab>>,
      <<S_SN, S_date, S_tracking_number>> }

\* the rows of a file whose header has five columns
Rows5 ==
    { <<S_7, S_MouseGluedData, S_x, S_x, S_55>>,
      <<S_7, S_PenData, S_x, S_x, None>>,
      <<S_42, S_x, S_x, S_InkData, S_55>>,
      <<S_42, S_CapData, S_x, S_x, S_55>>,
      <<S_7, S_NoCommas, S_x, S_x, S_55>>,
      <<S_2147483648, S_MouseGluedData, S_x, S_x, S_55>>,
      <<S_A1, S_MouseGluedData, S_x, S_x, S_55>>,
      <<S_Blank, None, <<>>, None, S_Tab>> }

\* the most rows a file has
MaxRows == 2

SeqsUpTo(S, n) == UNION { [1..k -> S] : k \in 0..n }

Files == SeqsUpTo(Rows3, MaxRows) \cup SeqsUpTo(Rows5, MaxRows)

\* the days datetime.now() falls on during a run, in their order
Days == << [year |-> 2025, month |-> 6, day |-> 30],
           [year |-> 2025, month |-> 7, day |-> 1] >>

NowSet == { Days[k] : k \in 1..Len(Days) }

(***************************************************************************)
(* The purchases table                                                     *)
(***************************************************************************)
\* whether INSERT_PURCHASE succeeds for a cleaned row: sn and quantity are
\* INTEGER columns, item_price and item_price_sgd are DECIMAL(10,2) columns
FitsColumns(row) ==
    /\ row.sn # BigInt
    /\ row.quantity # BigInt
    /\ row.item_price # HugeAmount

\* the cast of float(row['item_price_sgd']) to DECIMAL(10,2): millionths to
\* the nearest hundredth; up tells which way a value half-way between two
\* hundredths goes, which depends on the double nearest to it
RoundToHundredths(millionths, up) ==
    IF millionths < 0 THEN millionths
    ELSE IF millionths % 10000 > 5000 \/ (millionths % 10000 = 5000 /\ up)
         THEN millionths \div 10000 + 1
         ELSE millionths \div 10000

\* the table row INSERT_PURCHASE makes of a cleaned row
StoredRow(id, row, up) ==
    [id              |-> id,
     sn              |-> row.sn,
     date            |-> row.date,
     tracking_number |-> row.tracking_number,
     company_name    |-> row.company_name,
     item_name       |-> row.item_name,
     quantity        |-> row.quantity,
     item_price      |-> row.item_price,
     item_price_sgd  |-> RoundToHundredths(row.item_price_sgd, up),
     cny_to_sgd_rate |-> row.cny_to_sgd_rate,
     export_status   |-> row.export_status,
     order_id        |-> row.order_id]

(***************************************************************************)
(* The state                                                               *)
(***************************************************************************)
VARIABLES
    file,            \* the rows of the file at csv_path
    disk,            \* "ok", "missing" or "unreadable": what reading it meets
    caller,          \* "cli" (scripts/import_csv.py) or "api" (import_csv_data)
    pc,              \* where import_csv is
    i,               \* the position of the loop that is running
    cleaned_rows,    \* _clean_data's list
    imported_count,  \* _import_to_database's counter
    store,           \* the purchases table, in insertion order
    next_id,         \* the next value of purchase_id_seq
    connection,      \* db.connection of the process import_csv runs in
    result,          \* what import_csv returned last
    outcome,         \* what the caller made of the last call
    imports,         \* how many times an import was started
    today,           \* the position in Days of the day datetime.now() falls on
    tie_up,          \* whether the store's cast rounds a half hundredth up
    returns,         \* history: how many calls of import_csv returned
    emitted,         \* history: what each row read so far in the call gave
    store_at_call    \* history: the table when the call began

\* a call of _parse_date, a call of _parse_price, a request to get_purchase
\* and the process-wide Database handle, each followed on its own
VARIABLES
    date_str,        \* the argument of the call of _parse_date
    parsed_date,     \* <<>> before it returns, then <<what it returned>>
    price_str,       \* the argument of the call of _parse_price
    parsed_price,    \* <<>> before it returns, then <<what it returned>>
    response,        \* <<>>, or <<status, detail>> of the last get_purchase
    db_connection,   \* db.connection: 0 for None, else the connection's number
    live,            \* the connections duckdb has open
    opened,          \* how many connections duckdb.connect has made
    returned,        \* what the last call of connect returned
    last_call,       \* the last method called on the handle, and how it ended
    calls,           \* how many calls were made on the handle
    main_pc          \* where a command-line script is

import_vars == <<file, disk, caller, pc, i, cleaned_rows, imported_count, store,
                 next_id, connection, result, outcome, imports, today, tie_up,
                 returns, emitted, store_at_call>>

date_vars == <<date_str, parsed_date>>

price_vars == <<price_str, parsed_price>>

db_vars == <<db_connection, live, opened, returned, last_call, calls, main_pc>>

\* what import_csv and its callers leave alone
unit_vars == <<date_vars, price_vars, response, db_vars>>

vars == <<import_vars, unit_vars>>

\* no call of _parse_date is under way
DateIdle == date_str = <<>> /\ parsed_date = <<>>

\* no call of _parse_price is under way
PriceIdle == price_str = <<>> /\ parsed_price = <<>>

\* db = Database(): the handle of a process that has not used it
DbIdle ==
    /\ db_connection = 0
    /\ live = {}
    /\ opened = 0
    /\ returned = 0
    /\ last_call = "none"
    /\ calls = 0
    /\ main_pc = "none"

\* the most imports of a run
MaxImports == 2

DiskStates == {"ok", "missing", "unreadable"}

Init ==
    /\ file \in Files
    /\ disk = "ok"
    /\ caller = "none"
    /\ pc = "idle"
    /\ i = 0
    /\ cleaned_rows = <<>>
    /\ imported_count = 0
    /\ store = <<>>
    /\ next_id = 1
    /\ connection = "None"
    /\ result = 0
    /\ outcome = "none"
    /\ imports = 0
    /\ today = 1
    /\ tie_up \in BOOLEAN
    /\ returns = 0
    /\ emitted = <<>>
    /\ store_at_call = <<>>
    /\ DateIdle
    /\ PriceIdle
    /\ response = <<>>
    /\ DbIdle

\* the insert if the table had a unique key on sn
StoreAccepts_UniqueSn(row) ==
    /\ FitsColumns(row)
    /\ \A k \in 1..Len(store) : store[k].sn # row.sn

\* whether conn.execute(INSERT_PURCHASE, ...) succeeds: the table has no
\* constraint that involves the rows it holds
StoreAccepts(row) == FitsColumns(row)

(***************************************************************************)
(* The callers                                                             *)
(***************************************************************************)
\* scripts/import_csv.py main(), up to the call of import_csv: a new process,
\* which exits at once when the path does not exist
CliMain ==
    /\ pc = "idle"
    /\ imports < MaxImports
    /\ \E d \in DiskStates :
        /\ disk' = d
        /\ IF d = "missing"
           THEN pc' = "idle" /\ outcome' = "exit 1"
           ELSE pc' = "read" /\ outcome' = "running"
    /\ caller' = "cli"
    /\ connection' = "None"
    /\ imports' = imports + 1
    /\ emitted' = <<>>
    /\ store_at_call' = store
    /\ UNCHANGED <<file, i, cleaned_rows, imported_count, store, next_id, result,
                   returns, today, tie_up>>
    /\ UNCHANGED unit_vars

\* api/purchases.py import_csv_data(), up to the call of import_csv
ApiImportCsvData ==
    /\ pc = "idle"
    /\ imports < MaxImports
    /\ \E d \in DiskStates : disk' = d
    /\ pc' = "read"
    /\ outcome' = "running"
    /\ caller' = "api"
    /\ imports' = imports + 1
    /\ emitted' = <<>>
    /\ store_at_call' = store
    /\ UNCHANGED <<file, i, cleaned_rows, imported_count, store, next_id,
                   connection, result,
                   returns, today, tie_up>>
    /\ UNCHANGED unit_vars

\* main() after import_csv: the exit status, and db.close() in the finally;
\* the locals of the call are gone
CliExit ==
    /\ pc \in {"returned", "raised"}
    /\ caller = "cli"
    /\ outcome' = IF pc = "returned" THEN "exit 0" ELSE "exit 1"
    /\ connection' = "None"
    /\ pc' = "idle"
    /\ i' = 0
    /\ cleaned_rows' = <<>>
    /\ imported_count' = 0
    /\ emitted' = <<>>
    /\ store_at_call' = store
    /\ UNCHANGED <<file, disk, caller, store, next_id, result, imports,
                   returns, today, tie_up>>
    /\ UNCHANGED unit_vars

\* import_csv_data() after import_csv: the count, or HTTP 500
ApiRespond ==
    /\ pc \in {"returned", "raised"}
    /\ caller = "api"
    /\ outcome' = IF pc = "returned" THEN "200" ELSE "500"
    /\ pc' = "idle"
    /\ i' = 0
    /\ cleaned_rows' = <<>>
    /\ imported_count' = 0
    /\ emitted' = <<>>
    /\ store_at_call' = store
    /\ UNCHANGED <<file, disk, caller, store, next_id, connection, result, imports,
                   returns, today, tie_up>>
    /\ UNCHANGED unit_vars

(***************************************************************************)
(* DataImporter.import_csv                                                 *)
(***************************************************************************)
\* pl.read_csv succeeds
ReadCsv ==
    /\ pc = "read"
    /\ disk = "ok"
    /\ pc' = "clean"
    /\ i' = 1
    /\ cleaned_rows' = <<>>
    /\ UNCHANGED <<file, disk, caller, imported_count, store, next_id,
                   connection, result, outcome, imports, emitted, store_at_call,
                   returns, today, tie_up>>
    /\ UNCHANGED unit_vars

\* the failed read if import_csv swallowed the exception and went on
ReadCsvRaises_Swallowed ==
    /\ pc = "read"
    /\ disk # "ok"
    /\ pc' = "clean"
    /\ i' = 1
    /\ cleaned_rows' = <<>>
    /\ UNCHANGED <<file, disk, caller, imported_count, store, next_id,
                   connection, result, outcome, imports, emitted, store_at_call,
                   returns, today, tie_up>>
    /\ UNCHANGED unit_vars

\* pl.read_csv raises; import_csv prints and raises again
ReadCsvRaises ==
    /\ pc = "read"
    /\ disk # "ok"
    /\ pc' = "raised"
    /\ UNCHANGED <<file, disk, caller, i, cleaned_rows, imported_count, store,
                   next_id, connection, result, outcome, imports, emitted,
                   store_at_call,
                   returns, today, tie_up>>
    /\ UNCHANGED unit_vars

\* one pass of the loop of _clean_data
CleanRow ==
    /\ pc = "clean"
    /\ i <= Len(file)
    /\ cleaned_rows' = cleaned_rows \o CleanedRow(file[i], Days[today])
    /\ emitted' = Append(emitted, CleanedRow(file[i], Days[today]))
    /\ i' = i + 1
    /\ UNCHANGED <<file, disk, caller, pc, imported_count, store, next_id,
                   connection, result, outcome, imports, store_at_call,
                   returns, today, tie_up>>
    /\ UNCHANGED unit_vars

\* _clean_data returns; _import_to_database connects and begins its loop
BeginImportToDatabase ==
    /\ pc = "clean"
    /\ i > Len(file)
    /\ connection' = "open"
    /\ imported_count' = 0
    /\ i' = 1
    /\ pc' = "insert"
    /\ UNCHANGED <<file, disk, caller, cleaned_rows, store, next_id, result,
                   outcome, imports, emitted, store_at_call,
                   returns, today, tie_up>>
    /\ UNCHANGED unit_vars

\* the pass if a rejected insert ended the loop
InsertRow_AbortsBatch ==
    /\ pc = "insert"
    /\ i <= Len(cleaned_rows)
    /\ IF StoreAccepts(cleaned_rows[i])
       THEN /\ store' = Append(store, StoredRow(next_id, cleaned_rows[i], tie_up))
            /\ next_id' = next_id + 1
            /\ imported_count' = imported_count + 1
            /\ i' = i + 1
       ELSE /\ UNCHANGED <<store, next_id, imported_count>>
            /\ i' = Len(cleaned_rows) + 1
    /\ UNCHANGED <<file, disk, caller, pc, cleaned_rows, connection, result,
                   outcome, imports, emitted, store_at_call, returns, today,
                   tie_up>>
    /\ UNCHANGED unit_vars

\* one pass of the loop of _import_to_database
InsertRow ==
    /\ pc = "insert"
    /\ i <= Len(cleaned_rows)
    /\ IF StoreAccepts(cleaned_rows[i])
       THEN /\ store' = Append(store, StoredRow(next_id, cleaned_rows[i], tie_up))
            /\ next_id' = next_id + 1
            /\ imported_count' = imported_count + 1
       ELSE UNCHANGED <<store, next_id, imported_count>>
    /\ i' = i + 1
    /\ UNCHANGED <<file, disk, caller, pc, cleaned_rows, connection, result,
                   outcome, imports, emitted, store_at_call,
                   returns, today, tie_up>>
    /\ UNCHANGED unit_vars

\* _import_to_database and import_csv return the count
Return ==
    /\ pc = "insert"
    /\ i > Len(cleaned_rows)
    /\ result' = imported_count
    /\ returns' = returns + 1
    /\ pc' = "returned"
    /\ UNCHANGED <<file, disk, caller, i, cleaned_rows, imported_count, store,
                   next_id, connection, outcome, imports, emitted, store_at_call,
                   today, tie_up>>
    /\ UNCHANGED unit_vars

\* midnight passes
NextDay ==
    /\ today < Len(Days)
    /\ today' = today + 1
    /\ UNCHANGED <<file, disk, caller, pc, i, cleaned_rows, imported_count, store,
                   next_id, connection, result, outcome, imports, tie_up, returns,
                   emitted, store_at_call>>
    /\ UNCHANGED unit_vars

Next ==
    \/ CliMain
    \/ ApiImportCsvData
    \/ ReadCsv
    \/ ReadCsvRaises
    \/ CleanRow
    \/ BeginImportToDatabase
    \/ InsertRow
    \/ Return
    \/ CliExit
    \/ ApiRespond
    \/ NextDay

Spec == Init /\ [][Next]_vars

(***************************************************************************)
(* Properties                                                              *)
(***************************************************************************)
\* the rows of the file that the running (or last) call has read so far;
\* row k of them is file[k] and gave emitted[k]
Read == 1..Len(emitted)

IsHeaderCopy(row) == Contains(RowStr(row), HeaderPrefix)

\* the file names a row valid when the recovery the specification describes
\* (rows of two or more parts are parsed) makes a record of it that the table
\* takes; every other row is malformed
ValidRow(row) ==
    \E now \in NowSet :
        /\ CleanedRowWith(row, now, 2) # <<>>
        /\ StoreAccepts(CleanedRowWith(row, now, 2)[1])

RECURSIVE NumValid(_)
NumValid(rows) ==
    IF rows = <<>> THEN 0
    ELSE (IF ValidRow(Head(rows)) THEN 1 ELSE 0) + NumValid(Tail(rows))

\* C1: batch isolation: when import_csv returns from a file of v valid and m
\* malformed rows, in any order, it has persisted exactly v records and
\* returns v, and no exception of a row or of an insert leaves the call
C1_BatchIsolation ==
    /\ pc = "returned" =>
          /\ result = NumValid(file)
          /\ Len(store) = Len(store_at_call) + NumValid(file)
    /\ pc = "raised" => disk # "ok"

\* "<digits>|<item>,<date>,<qty>,<price>|<digits>"
IsRoundTripRow(row) ==
    /\ Len(row) = 3
    /\ IsDecimalStr(row[1])
    /\ IsDecimalStr(row[3])
    /\ row[2] # None
    /\ Len(split(row[2], ",")) = 4

RoundTripRow == <<S_42, S_WirelessMouseData, S_100234>>

\* C2: round trip: a row "<digits>|<item>,<date>,<qty>,<price>|<digits>" is
\* not discarded and gives exactly one record, with the serial number, the
\* item name and the order id of the row; "42|Wireless Mouse,2024-01-10,2,
\* 19.99|100234" gives 42, "Wireless Mouse", 2024-01-10, 2, 19.99, "100234"
C2_RoundTrip ==
    \A k \in Read :
        IsRoundTripRow(file[k]) =>
            /\ Len(emitted[k]) = 1
            /\ emitted[k][1].sn = int(file[k][1])
            /\ emitted[k][1].item_name = split(file[k][2], ",")[1]
            /\ emitted[k][1].order_id = file[k][3]
            /\ file[k] = RoundTripRow =>
                  /\ emitted[k][1].sn = 42
                  /\ emitted[k][1].item_name = S_WirelessMouse
                  /\ emitted[k][1].date = [year |-> 2024, month |-> 1, day |-> 10]
                  /\ emitted[k][1].quantity = 2
                  /\ emitted[k][1].item_price = 1999
                  /\ emitted[k][1].order_id = S_100234

\* digits, one decimal point, exactly two digits
IsSingleAmount(s) ==
    /\ MatchAmount(s) # <<>>
    /\ Len(s) = find(s, ".", 0) + 3

\* the price string the loop hands to _parse_price
PriceStr(row) == DataParts(row)[Len(DataParts(row))]

\* C3: a price string of digits, one decimal point and exactly two digits
\* ("5.00") is parsed to that amount
C3_SingleAmount ==
    \A k \in Read :
        (emitted[k] # <<>> /\ IsSingleAmount(PriceStr(file[k]))) =>
            emitted[k][1].item_price = Decimal(MatchAmount(PriceStr(file[k])))

\* the quantity string the loop reads
QuantityStr(row) == DataParts(row)[Len(DataParts(row)) - 1]

\* C4: every record row recovery emits and every record persisted has a
\* quantity of at least 1, which is the value of the quantity string when
\* that is purely numeric and 1 otherwise
C4_QuantityPositive ==
    /\ \A k \in Read :
          emitted[k] # <<>> =>
              /\ emitted[k][1].quantity =
                    IF isdigit(QuantityStr(file[k])) THEN int(QuantityStr(file[k]))
                    ELSE 1
              /\ emitted[k][1].quantity >= 1 \/ emitted[k][1].quantity = BigInt
    /\ \A k \in 1..Len(store) :
          store[k].quantity >= 1 \/ store[k].quantity = BigInt

\* the row has a numeric serial number and one or more parts after it
HasSerialAndData(row) ==
    /\ ~IsEmptyRow(row)
    /\ ~IsHeaderCopy(row)
    /\ Len(split(RowStr(row), "|")) >= 2
    /\ IsDecimalStr(split(RowStr(row), "|")[1])

QuantityRaises(row) ==
    isdigit(QuantityStr(row)) /\ ~IsDecimalStr(QuantityStr(row))

\* C5: right-anchored recovery: of a data part of k >= 4 comma-separated
\* parts the last three are date, quantity and price and the first k - 3,
\* joined by commas, the item name; the row "Mouse, Wireless, Black,
\* 2024-01-10,1,9.99" with order id 55 gives the item name "Mouse, Wireless,
\* Black"; a data part of fewer than 4 parts gives no record
C5_RightAnchored ==
    \A k \in Read :
        HasSerialAndData(file[k]) =>
            LET dp == DataParts(file[k])
                n  == Len(dp)
            IN  /\ n < 4 => emitted[k] = <<>>
                /\ (n >= 4 /\ ~QuantityRaises(file[k])) =>
                      /\ Len(emitted[k]) = 1
                      /\ emitted[k][1].item_name = join(SubSeq(dp, 1, n - 3), ",")
                      /\ \E now \in NowSet :
                            emitted[k][1].date = _parse_date(dp[n - 2], now)
                      /\ emitted[k][1].quantity = Quantity(dp[n - 1])
                      /\ emitted[k][1].item_price = _parse_price(dp[n])
                /\ (DataPart(Remaining(file[k])) = S_MouseData
                      /\ OrderId(Remaining(file[k])) = S_55) =>
                      /\ Len(emitted[k]) = 1
                      /\ emitted[k][1].item_name = S_MouseWirelessBlack

\* C6 as stated: the secondary price of every persisted record is exactly
\* the primary price times the rate stored with it, which is 0.1962
C6_ExactProduct ==
    \A k \in 1..Len(store) :
        /\ store[k].item_price_sgd * 10000
              = store[k].item_price * store[k].cny_to_sgd_rate
        /\ store[k].cny_to_sgd_rate = CNY_TO_SGD_RATE

Abs(x) == IF x < 0 THEN -x ELSE x

ConversionHolds ==
    /\ \A k \in 1..Len(store) :
          /\ Abs(store[k].item_price_sgd * 10000
                   - store[k].item_price * store[k].cny_to_sgd_rate) <= 5000
          /\ store[k].cny_to_sgd_rate = CNY_TO_SGD_RATE
    /\ \A k \in 1..Len(cleaned_rows) :
          /\ cleaned_rows[k].item_price_sgd
                = cleaned_rows[k].item_price * cleaned_rows[k].cny_to_sgd_rate
          /\ cleaned_rows[k].cny_to_sgd_rate = CNY_TO_SGD_RATE

ConversionFrozen ==
    \A k \in 1..Len(store) :
        /\ k <= Len(store')
        /\ store'[k].item_price = store[k].item_price
        /\ store'[k].item_price_sgd = store[k].item_price_sgd
        /\ store'[k].cny_to_sgd_rate = store[k].cny_to_sgd_rate

\* C6, amended: the importer computes the secondary price as exactly the
\* primary price times the rate 0.1962; the persisted secondary price is
\* that product rounded to the two decimals of its column, so it is within
\* 0.005 of the product; the persisted rate is 0.1962; no later step changes
\* a persisted price or rate
C6_RoundedProduct == []ConversionHolds /\ [][ConversionFrozen]_vars

\* a persisted secondary price that is not the exact product
C6_Witness ==
    \E k \in 1..Len(store) :
        /\ store[k].item_price > 0
        /\ store[k].item_price_sgd * 10000
              # store[k].item_price * store[k].cny_to_sgd_rate

\* no step changes or removes a row of the table
AppendOnly ==
    /\ Len(store') >= Len(store)
    /\ SubSeq(store', 1, Len(store)) = store

\* two table rows made from the same row of the file: they agree on all but
\* the id (the date of a row without a parsable date is the day of the
\* import)
SameSource(a, b) ==
    /\ a.sn = b.sn
    /\ a.item_name = b.item_name
    /\ a.quantity = b.quantity
    /\ a.item_price = b.item_price
    /\ a.cny_to_sgd_rate = b.cny_to_sgd_rate
    /\ a.order_id = b.order_id
    /\ a.tracking_number = b.tracking_number
    /\ a.company_name = b.company_name
    /\ a.export_status = b.export_status
    /\ a.date = b.date \/ (a.date \in NowSet /\ b.date \in NowSet)
    /\ a.item_price_sgd = b.item_price_sgd

\* when the file has been imported twice, the table holds the rows of the
\* first import followed by a copy of each under a new id
TwoCopies ==
    (returns = 2 /\ pc = "returned") =>
        LET n == Len(store_at_call)
        IN  /\ Len(store) = 2 * n
            /\ SubSeq(store, 1, n) = store_at_call
            /\ \A k \in 1..n :
                  /\ SameSource(store[k], store[n + k])
                  /\ store[k].id # store[n + k].id

Accepted(rows) == SelectSeq(rows, StoreAccepts)

\* the table holds, after the rows it held when the call began, the rows
\* made of the given cleaned rows that the store accepts, in their order
Persisted(rows) ==
    LET n0  == Len(store_at_call)
        acc == Accepted(rows)
    IN  /\ Len(store) = n0 + Len(acc)
        /\ SubSeq(store, 1, n0) = store_at_call
        /\ \A k \in 1..Len(acc) :
              store[n0 + k] = StoredRow(store[n0 + k].id, acc[k], tie_up)

\* C8: the writer skips a record whose insert the store rejects and goes on:
\* all the other records of the batch are persisted, the count returned is
\* the number of inserts that succeeded, and no exception leaves the writer
C8_WriterIsolation ==
    /\ pc = "insert" =>
          /\ Persisted(SubSeq(cleaned_rows, 1, i - 1))
          /\ imported_count = Len(Accepted(SubSeq(cleaned_rows, 1, i - 1)))
    /\ pc = "returned" =>
          /\ Persisted(cleaned_rows)
          /\ result = Len(Accepted(cleaned_rows))
          /\ result = Len(store) - Len(store_at_call)
    /\ pc = "raised" => (disk # "ok" /\ store = store_at_call)

\* a batch whose first record was rejected and whose second was persisted
C8_Witness ==
    /\ pc = "returned"
    /\ Len(cleaned_rows) = 2
    /\ ~StoreAccepts(cleaned_rows[1])
    /\ StoreAccepts(cleaned_rows[2])
    /\ result = 1
    /\ Len(store) = Len(store_at_call) + 1

\* C9: when the file is missing or unreadable import_csv raises before it
\* reads a row, the table is as it was when the call began, and the caller
\* reports the failure
C9_FatalError ==
    /\ disk # "ok" =>
          /\ pc \in {"idle", "read", "raised"}
          /\ emitted = <<>>
          /\ store = store_at_call
    /\ (disk # "ok" /\ pc = "idle") => outcome \in {"exit 1", "500"}

\* import_csv has raised on a table that holds records
C9_Witness ==
    /\ pc = "raised"
    /\ disk \in {"missing", "unreadable"}
    /\ Len(store) > 0

\* every cell of the row is None, empty or white space
IsBlankRow(row) ==
    \A k \in 1..Len(row) : row[k] = None \/ strip(row[k]) = <<>>

\* C10: a row that is empty or whose every cell is empty, white space or
\* unset is discarded: it adds no record to the cleaned rows
C10_BlankRowDiscarded ==
    /\ \A k \in Read : IsBlankRow(file[k]) => emitted[k] = <<>>
    /\ (pc = "clean" /\ \A k \in Read : IsBlankRow(file[k])) => cleaned_rows = <<>>

\* a row of unset and white-space cells and a row of white-space cells have
\* been read
C10_Witness ==
    /\ pc = "clean"
    /\ Len(emitted) = 2
    /\ IsBlankRow(file[1])
    /\ \E k \in 1..Len(file[1]) : file[1][k] = None
    /\ \E k \in 1..Len(file[1]) : file[1][k] # None /\ file[1][k] # <<>>
    /\ IsEmptyRow(file[2])

(***************************************************************************)
(* Row recovery on its own: one pass of the loop of _clean_data over each  *)
(* row of a wider choice of rows                                           *)
(***************************************************************************)
S_7a ==
    <<"7", "a">>

\* the single character SUPERSCRIPT TWO
S_sup2 ==
    <<"sup2">>

S_Sp7 ==
    <<" ", "7">>

S_Minus7 ==
    <<"-", "7">>

S_CaseSN ==
    <<"C", "a", "s", "e", " ", "S", "N">>

\* the first cell of a row
SerialCells == {S_7, S_42, S_A1, S_7a, S_sup2, S_Sp7, S_Minus7, S_SN, <<>>, None}

\* the last cell of a row
LastCells == {S_55, S_x, S_sup2, S_MouseGluedData, <<>>, None}

\* rows of a file whose header has five columns
RecoveryRows ==
    { <<a, b, c, d, e>> :
        a \in SerialCells,
        b \in {S_MouseGluedData, S_x, S_CaseSN, S_date},
        c \in {S_x, S_date, S_tracking_number},
        d \in {S_x, S_tracking_number},
        e \in LastCells }

\* the data frames of one row
RowFiles == { <<row>> : row \in RecoveryRows \cup Rows3 \cup Rows5 }

\* import_csv has read a file of one row and enters the loop of _clean_data
RowInit ==
    /\ file \in RowFiles
    /\ disk = "ok"
    /\ caller \in {"cli", "api"}
    /\ pc = "clean"
    /\ i = 1
    /\ cleaned_rows = <<>>
    /\ imported_count = 0
    /\ store = <<>>
    /\ next_id = 1
    /\ connection = "None"
    /\ result = 0
    /\ outcome = "running"
    /\ imports = 1
    /\ today \in 1..Len(Days)
    /\ tie_up = FALSE
    /\ returns = 0
    /\ emitted = <<>>
    /\ store_at_call = <<>>
    /\ DateIdle
    /\ PriceIdle
    /\ response = <<>>
    /\ DbIdle

RowNext == CleanRow

RowSpec == RowInit /\ [][RowNext]_vars

\* parts[0] of the row
FirstSegment(row) == split(RowStr(row), "|")[1]

\* C11: a row whose first pipe-delimited segment is empty or has a character
\* that is not a decimal digit is discarded: it gives no record, whatever the
\* other segments hold
C11_NonDigitSerialDiscarded ==
    \A k \in Read :
        ~IsDecimalStr(FirstSegment(file[k])) =>
            /\ emitted[k] = <<>>
            /\ (pc = "clean" /\ Len(file) = 1) => cleaned_rows = <<>>

\* a row that is discarded for a letter after the digit of its serial number:
\* with the serial number "7" the same row gives a record
C11_Witness ==
    /\ Len(emitted) = 1
    /\ file[1][1] = S_7a
    /\ CleanedRow(<<S_7>> \o Tail(file[1]), Days[today]) # <<>>
    /\ emitted[1] = <<>>

\* the pass leaves the loop body at the continue of the header check
SkippedAsHeader(row) ==
    /\ ~IsEmptyRow(row)
    /\ Contains(RowStr(row), HeaderPrefix)

\* the row is a copy of the header line: its first three cells are the
\* column names SN, date and tracking_number
OpensWithHeaderNames(row) ==
    /\ Len(row) >= 3
    /\ row[1] = S_SN
    /\ row[2] = S_date
    /\ row[3] = S_tracking_number

\* C12: the header check discards a row exactly when the row is a copy of
\* the header line: every copy of the header line is discarded and gives no
\* record, and no row that is not a copy of it leaves at the header check
C12_HeaderCopyExact ==
    \A k \in Read :
        /\ OpensWithHeaderNames(file[k]) =>
              (SkippedAsHeader(file[k]) /\ emitted[k] = <<>>)
        /\ SkippedAsHeader(file[k]) => OpensWithHeaderNames(file[k])

\* the last pipe-delimited segment of remaining
LastSegment(remaining) == split(remaining, "|")[Len(split(remaining, "|"))]

\* remaining without its last segment and the delimiter before it
BeforeLastSegment(remaining) ==
    SubSeq(remaining, 1, Len(remaining) - Len(LastSegment(remaining)) - 1)

\* C15: with remaining the parts after the serial number joined by the
\* delimiter: when its last segment is purely numeric the order id is that
\* segment and the data payload is all that is before it, else the order id
\* is empty and the data payload is the whole of remaining; the order id is
\* empty or all digits, and payload and order id make up remaining again; the
\* record carries that order id and the item name of that payload
C15_OrderIdRecovery ==
    \A k \in Read :
        emitted[k] # <<>> =>
            LET remaining == Remaining(file[k])
                order_id  == OrderId(remaining)
                data_part == DataPart(remaining)
            IN  /\ isdigit(LastSegment(remaining)) =>
                      /\ order_id = LastSegment(remaining)
                      /\ data_part = BeforeLastSegment(remaining)
                      /\ data_part \o <<"|">> \o order_id = remaining
                /\ ~isdigit(LastSegment(remaining)) =>
                      /\ order_id = <<>>
                      /\ data_part = remaining
                /\ order_id = <<>> \/ isdigit(order_id)
                /\ emitted[k][1].order_id = order_id
                /\ emitted[k][1].item_name = ItemName(split(data_part, ","))

\* a record whose order id was the last segment of a payload that has the
\* delimiter in it
C15_Witness ==
    /\ Len(emitted) = 1
    /\ emitted[1] # <<>>
    /\ emitted[1][1].order_id = S_55
    /\ Contains(DataPart(Remaining(file[1])), <<"|">>)
    /\ DataPart(Remaining(file[1])) # Remaining(file[1])

(***************************************************************************)
(* DataImporter._parse_date on its own                                     *)
(***************************************************************************)
\* no import is under way and none has been
ImportIdle ==
    /\ file = <<>>
    /\ disk = "ok"
    /\ caller = "none"
    /\ pc = "idle"
    /\ i = 0
    /\ cleaned_rows = <<>>
    /\ imported_count = 0
    /\ store = <<>>
    /\ next_id = 1
    /\ connection = "None"
    /\ result = 0
    /\ outcome = "none"
    /\ imports = 0
    /\ tie_up = FALSE
    /\ returns = 0
    /\ emitted = <<>>
    /\ store_at_call = <<>>

\* the fields a date string is made of
DateFields ==
    { <<"2", "0", "2", "4">>, <<"2", "0", "2", "3">>, <<"0", "0", "0", "0">>,
      <<"0", "3">>, <<"1", "5">>, <<"0", "1">>, <<"0", "2">>, <<"1", "3">>,
      <<"2", "9">>, <<"3", "1">>, <<"3">>, <<" ", "5">>, <<"0">> }

S_NA ==
    <<"N", "/", "A">>

\* "2024-03-15 "
S_IsoThenSpace ==
    <<"2", "0", "2", "4", "-", "0", "3", "-", "1", "5", " ">>

\* "2024-03-15-01"
S_IsoThenMore ==
    <<"2", "0", "2", "4", "-", "0", "3", "-", "1", "5", "-", "0", "1">>

\* the date strings: three fields with "-" or with "/" between them, and
\* strings of other forms
DateStrings ==
    { a \o <<sep>> \o b \o <<sep>> \o c :
        a \in DateFields, b \in DateFields, c \in DateFields, sep \in {"-", "/"} }
    \cup { <<>>, S_NA, S_IsoThenSpace, S_IsoThenMore, S_x, S_WirelessMouse }

DateInit ==
    /\ ImportIdle
    /\ today = 1
    /\ date_str \in DateStrings
    /\ parsed_date = <<>>
    /\ PriceIdle
    /\ response = <<>>
    /\ DbIdle

\* the call of _parse_date(date_str)
ParseDate ==
    /\ parsed_date = <<>>
    /\ parsed_date' = <<_parse_date(date_str, Days[today])>>
    /\ UNCHANGED <<import_vars, date_str, price_vars, response, db_vars>>

DateNext ==
    \/ ParseDate
    \/ NextDay

DateSpec == DateInit /\ [][DateNext]_vars

\* d is a day of the calendar
IsDate(d) ==
    /\ d.year >= 1
    /\ d.month \in 1..12
    /\ d.day \in 1..DaysInMonth(d.year, d.month)

\* "03/15/2024"
S_Mar15_mdy ==
    <<"0", "3", "/", "1", "5", "/", "2", "0", "2", "4">>

\* "15/03/2024"
S_Mar15_dmy ==
    <<"1", "5", "/", "0", "3", "/", "2", "0", "2", "4">>

\* "01/02/2024"
S_Jan2_mdy ==
    <<"0", "1", "/", "0", "2", "/", "2", "0", "2", "4">>

\* "2024-03-15"
S_Mar15_iso ==
    <<"2", "0", "2", "4", "-", "0", "3", "-", "1", "5">>

\* the string read as year-month-day, as month/day/year, as day/month/year
AsIso(s) == strptime(s, "-", 1, 2, 3)

AsMonthDayYear(s) == strptime(s, "/", 3, 1, 2)

AsDayMonthYear(s) == strptime(s, "/", 3, 2, 1)

\* C13: _parse_date returns a date for every string and never raises: the
\* string read as year-month-day when it can be, else as month/day/year when
\* it can be, else as day/month/year when it can be, else the day the system
\* clock shows; "03/15/2024" gives 2024-03-15, "01/02/2024" gives 2 January,
\* day/month/year is used only when month/day/year fails
C13_DatePriority ==
    parsed_date # <<>> =>
        LET d == parsed_date[1]
            s == date_str
        IN  /\ Len(parsed_date) = 1
            /\ IsDate(d)
            /\ AsIso(s) # <<>> => d = AsIso(s)[1]
            /\ (AsIso(s) = <<>> /\ AsMonthDayYear(s) # <<>>) =>
                  d = AsMonthDayYear(s)[1]
            /\ (AsIso(s) = <<>> /\ AsMonthDayYear(s) = <<>>
                  /\ AsDayMonthYear(s) # <<>>) => d = AsDayMonthYear(s)[1]
            /\ (AsIso(s) = <<>> /\ AsMonthDayYear(s) = <<>>
                  /\ AsDayMonthYear(s) = <<>>) =>
                  \E k \in 1..today : d = Days[k]
            /\ s = S_Mar15_iso => d = [year |-> 2024, month |-> 3, day |-> 15]
            /\ s = S_Mar15_mdy => d = [year |-> 2024, month |-> 3, day |-> 15]
            /\ s = S_Mar15_dmy => d = [year |-> 2024, month |-> 3, day |-> 15]
            /\ s = S_Jan2_mdy => d = [year |-> 2024, month |-> 1, day |-> 2]

\* the ambiguous "01/02/2024" has been parsed, to 2 January
C13_Witness ==
    /\ date_str = S_Jan2_mdy
    /\ parsed_date = <<[year |-> 2024, month |-> 1, day |-> 2]>>

(***************************************************************************)
(* DataImporter._parse_price on its own                                    *)
(***************************************************************************)
\* the most characters of a price string made of PriceChars
MaxPriceLen == 6

PriceChars == {"1", ".", "x", " "}

\* "173.310.000.0014.31173.31"
S_GluedAmounts ==
    <<"1", "7", "3", ".", "3", "1", "0", ".", "0", "0", "0", ".", "0", "0",
      "1", "4", ".", "3", "1", "1", "7", "3", ".", "3", "1">>

\* " 9.990.00 "
S_PaddedAmounts ==
    <<" ", "9", ".", "9", "9", "0", ".", "0", "0", " ">>

\* "1.", two superscript digits, ".00"
S_SuperscriptCents ==
    <<"1", ".", "sup2", "sup2", ".", "0", "0">>

\* "012.500.1"
S_LeadingZero ==
    <<"0", "1", "2", ".", "5", "0", "0", ".", "1">>

\* "123456789.000.00"
S_NineDigits ==
    <<"1", "2", "3", "4", "5", "6", "7", "8", "9", ".", "0", "0", "0", ".",
      "0", "0">>

PriceStrings ==
    SeqsUpTo(PriceChars, MaxPriceLen)
    \cup { S_GluedAmounts, S_PaddedAmounts, S_SuperscriptCents, S_LeadingZero,
           S_NineDigits, <<"5", ".", "0", "0">>, S_55, None }

PriceInit ==
    /\ ImportIdle
    /\ today = 1
    /\ DateIdle
    /\ price_str \in PriceStrings
    /\ parsed_price = <<>>
    /\ response = <<>>
    /\ DbIdle

\* the call of _parse_price(price_str); str(price_str) of line 126
ParsePrice ==
    /\ parsed_price = <<>>
    /\ parsed_price' = <<_parse_price(str(price_str))>>
    /\ UNCHANGED <<import_vars, date_vars, price_str, response, db_vars>>

PriceNext == ParsePrice

PriceSpec == PriceInit /\ [][PriceNext]_vars

\* the positions of the decimal points of s
DotPositions(s) == { k \in 1..Len(s) : s[k] = "." }

\* the position of the second decimal point of a string that has two
SecondDotPosition(s) ==
    CHOOSE k \in DotPositions(s) :
        Cardinality({ j \in DotPositions(s) : j < k }) = 1

\* s up to two characters past its second decimal point
UpToSecondDot(s) ==
    SubSeq(s, 1, IF SecondDotPosition(s) + 2 < Len(s)
                 THEN SecondDotPosition(s) + 2 ELSE Len(s))

\* u is digits, a decimal point and exactly two digits
IsAmountForm(u) ==
    /\ Len(u) >= 4
    /\ IsDecimalStr(SubSeq(u, 1, Len(u) - 3))
    /\ u[Len(u) - 2] = "."
    /\ IsDecimalChar(u[Len(u) - 1])
    /\ IsDecimalChar(u[Len(u)])

\* the lengths of the prefixes of t that are of that form
AmountPrefixes(t) == { n \in 1..Len(t) : IsAmountForm(SubSeq(t, 1, n)) }

\* the amount of the longest of them, 0.00 when there is none
LongestAmountPrefix(t) ==
    IF AmountPrefixes(t) = {} THEN 0
    ELSE LET n == CHOOSE m \in AmountPrefixes(t) : \A j \in AmountPrefixes(t) : j <= m
         IN  Decimal(<<SubSeq(t, 1, n - 3), SubSeq(t, n - 1, n)>>)

\* what the claim says of the result r for the string s
PriceHeuristic(s, r) ==
    /\ r >= 0 \/ r \in {LargeAmount, HugeAmount}
    /\ Cardinality(DotPositions(s)) >= 2 =>
          r = LongestAmountPrefix(UpToSecondDot(s))
    /\ DotPositions(s) = {} => r = 0
    /\ s = S_GluedAmounts => r = 17331

\* C14 as stated: the heuristic applied to the input string as it is
C14_PrefixOfInput ==
    parsed_price # <<>> =>
        /\ Len(parsed_price) = 1
        /\ PriceHeuristic(str(price_str), parsed_price[1])

\* C14, amended: _parse_price never raises and returns 0.00 or a two-decimal
\* amount that is not negative; the heuristic is applied to the input string
\* stripped of the white space around it: when that has two or more decimal
\* points the result is its longest prefix of the form digits, decimal point,
\* exactly two digits, looked for in the part that ends two characters past
\* the second decimal point, and 0.00 when there is no such prefix
\* ("173.310.000.0014.31173.31" gives 173.31); when it has no decimal point
\* the result is 0.00
C14_PrefixOfTrimmed ==
    parsed_price # <<>> =>
        /\ Len(parsed_price) = 1
        /\ PriceHeuristic(strip(str(price_str)), parsed_price[1])

\* a string with white space before its amounts has been parsed to an amount
C14_Witness ==
    /\ price_str = S_PaddedAmounts
    /\ parsed_price = <<999>>

(***************************************************************************)
(* api/purchases.py get_purchase, on a table that imports have filled      *)
(***************************************************************************)
\* the records imports make of the rows of Rows5 and the table takes
QueryRecords ==
    { CleanedRow(x[1], x[2])[1] :
        x \in { y \in Rows5 \X NowSet :
                  /\ CleanedRow(y[1], y[2]) # <<>>
                  /\ StoreAccepts(CleanedRow(y[1], y[2])[1]) } }

\* the table after the given records were inserted, in their order
Table(records, up) ==
    [k \in 1..Len(records) |-> StoredRow(k, records[k], up)]

QueryInit ==
    /\ file = <<>>
    /\ disk = "ok"
    /\ caller = "api"
    /\ pc = "idle"
    /\ i = 0
    /\ cleaned_rows = <<>>
    /\ imported_count = 0
    /\ tie_up \in BOOLEAN
    /\ store \in { Table(records, tie_up) : records \in SeqsUpTo(QueryRecords, MaxRows) }
    /\ next_id = Len(store) + 1
    /\ connection = "None"
    /\ result = 0
    /\ outcome = "none"
    /\ imports = 0
    /\ today = 1
    /\ returns = 0
    /\ emitted = <<>>
    /\ store_at_call = store
    /\ DateIdle
    /\ PriceIdle
    /\ response = <<>>
    /\ DbIdle

\* str(e) of the HTTPException(404) raised at line 35: "404: Purchase not
\* found" where HTTPException defines __str__, "" where it does not
StrOfNotFound == {"404: Purchase not found", ""}

\* db.fetchone(SELECT_BY_ID, [purchase_id]): <<the first row with that id>>,
\* or <<>> for None
SelectById(purchase_id) ==
    LET found == SelectSeq(store, LAMBDA row : row.id = purchase_id)
    IN  IF found = <<>> THEN <<>> ELSE <<found[1]>>

\* GET /api/purchases/{purchase_id}: the whole handler.  db.fetchone connects
\* when no connection is open and executes the query, and either may raise;
\* else it returns; the HTTPException(404) of line 35 is raised
\* inside the try, whose except Exception catches it and raises
\* HTTPException(500, str(e))
GetPurchase ==
    /\ pc = "idle"
    /\ \E purchase_id \in 1..(MaxRows + 1),
          raised_in \in {"nothing", "connect", "execute"},
          str_e \in StrOfNotFound :
        /\ raised_in = "connect" => connection = "None"
        /\ connection' = IF raised_in = "connect" THEN "None" ELSE "open"
        /\ response' =
              IF raised_in # "nothing"
              THEN <<[purchase_id |-> purchase_id, fetch_raised |-> TRUE,
                      status |-> 500, detail |-> "store error", body |-> <<>>]>>
              ELSE IF SelectById(purchase_id) = <<>>
              THEN <<[purchase_id |-> purchase_id, fetch_raised |-> FALSE,
                      status |-> 500, detail |-> str_e, body |-> <<>>]>>
              ELSE <<[purchase_id |-> purchase_id, fetch_raised |-> FALSE,
                      status |-> 200, detail |-> "",
                      body |-> SelectById(purchase_id)]>>
    /\ UNCHANGED <<file, disk, caller, pc, i, cleaned_rows, imported_count, store,
                   next_id, result, outcome, imports, today, tie_up, returns,
                   emitted, store_at_call>>
    /\ UNCHANGED <<date_vars, price_vars, db_vars>>

QueryNext == GetPurchase

QuerySpec == QueryInit /\ [][QueryNext]_vars

\* C16: when no record has the requested id, get_purchase answers with the
\* status 404 and the detail "Purchase not found", not with 500; it answers
\* with 500 only when the lookup in the store itself failed
C16_NotFoundIs404 ==
    response # <<>> =>
        LET r == response[1]
        IN  /\ (~r.fetch_raised /\ \A k \in 1..Len(store) : store[k].id # r.purchase_id)
                  => (r.status = 404 /\ r.detail = "Purchase not found")
            /\ r.status = 500 => r.fetch_raised

(***************************************************************************)
(* database.py: the Database handle db of one process, the calls made on   *)
(* it, and scripts/import_csv.py main() as a user of it.  A connection is  *)
(* known by its number: the n-th that duckdb.connect made is n.            *)
(***************************************************************************)
\* the most calls made on the handle by code other than main()
MaxCalls == 6

\* close() if it left the connection as it is
Close_LeavesOpen == UNCHANGED <<db_connection, live>>

\* Database.close()
Close ==
    IF db_connection # 0
    THEN /\ live' = live \ {db_connection}
         /\ db_connection' = 0
    ELSE UNCHANGED <<db_connection, live>>

\* Database.connect() when it returns: the connection the handle holds, or a
\* new one when it holds none
Connect ==
    IF db_connection = 0
    THEN /\ opened' = opened + 1
         /\ db_connection' = opened + 1
         /\ live' = live \cup {opened + 1}
         /\ returned' = opened + 1
    ELSE /\ returned' = db_connection
         /\ UNCHANGED <<db_connection, live, opened>>

\* Database.connect() when duckdb.connect raises: the handle holds none
ConnectRaises ==
    /\ db_connection = 0
    /\ UNCHANGED <<db_connection, live, opened, returned>>

DbInit ==
    /\ ImportIdle
    /\ today = 1
    /\ DateIdle
    /\ PriceIdle
    /\ response = <<>>
    /\ DbIdle

\* db.connect() called by code of the process
DbConnect ==
    /\ main_pc = "none"
    /\ calls < MaxCalls
    /\ calls' = calls + 1
    /\ \/ Connect /\ last_call' = "connect"
       \/ ConnectRaises /\ last_call' = "connect raised"
    /\ UNCHANGED <<import_vars, date_vars, price_vars, response, main_pc>>

\* db.close() called by code of the process
DbClose ==
    /\ main_pc = "none"
    /\ calls < MaxCalls
    /\ calls' = calls + 1
    /\ Close
    /\ last_call' = "close"
    /\ UNCHANGED <<opened, returned, main_pc>>
    /\ UNCHANGED <<import_vars, date_vars, price_vars, response>>

\* Database.execute(): connect, then conn.execute, which returns or raises
Execute(method) ==
    /\ main_pc = "none"
    /\ calls < MaxCalls
    /\ calls' = calls + 1
    /\ \/ Connect /\ last_call' \in {method, method \o " raised"}
       \/ ConnectRaises /\ last_call' = method \o " raised"
    /\ UNCHANGED <<import_vars, date_vars, price_vars, response, main_pc>>

DbExecute == Execute("execute")

\* Database.fetchall(): execute(...).fetchall()
DbFetchall == Execute("fetchall")

\* Database.fetchone(): execute(...).fetchone()
DbFetchone == Execute("fetchone")

\* scripts/import_csv.py main() in a process of its own, up to the try: it
\* exits with 1 for a wrong argument count or a path that does not exist
MainBegin ==
    /\ main_pc = "none"
    /\ last_call = "none"
    /\ \E checks \in {"usage", "missing", "pass"} :
          main_pc' = IF checks = "pass" THEN "try" ELSE "exit 1"
    /\ UNCHANGED <<db_connection, live, opened, returned, last_call, calls>>
    /\ UNCHANGED <<import_vars, date_vars, price_vars, response>>

\* importer.import_csv(csv_path) inside the try: it raises before it connects
\* (the read fails), or _import_to_database connects, which may raise, and
\* inserts, skipping the records the store rejects, and returns
MainImportCsv ==
    /\ main_pc = "try"
    /\ \/ /\ UNCHANGED <<db_connection, live, opened, returned, calls>>
          /\ last_call' = "none"
          /\ main_pc' = "except"
       \/ /\ ConnectRaises
          /\ last_call' = "connect raised"
          /\ calls' = calls + 1
          /\ main_pc' = "except"
       \/ /\ Connect
          /\ last_call' = "connect"
          /\ calls' = calls + 1
          /\ main_pc' = "finally"
    /\ UNCHANGED <<import_vars, date_vars, price_vars, response>>

\* the finally of main(): db.close(), and the process ends, with 1 when the
\* except clause called sys.exit(1)
MainFinally ==
    /\ main_pc \in {"except", "finally"}
    /\ Close
    /\ last_call' = "close"
    /\ main_pc' = IF main_pc = "except" THEN "exit 1" ELSE "exit 0"
    /\ calls' = calls + 1
    /\ UNCHANGED <<opened, returned>>
    /\ UNCHANGED <<import_vars, date_vars, price_vars, response>>

DbNext ==
    \/ DbConnect
    \/ DbClose
    \/ DbExecute
    \/ DbFetchall
    \/ DbFetchone
    \/ MainBegin
    \/ MainImportCsv
    \/ MainFinally

DbSpec == DbInit /\ [][DbNext]_vars

\* at most one connection is open, and it is the one the handle holds; the
\* last connect returned the connection the handle holds; after close the
\* handle is unset; when the command-line import has ended no connection is
\* open
OneConnection ==
    /\ Cardinality(live) <= 1
    /\ live = IF db_connection = 0 THEN {} ELSE {db_connection}
    /\ last_call = "connect" => (returned = db_connection /\ returned \in live)
    /\ last_call = "close" => db_connection = 0
    /\ main_pc \in {"exit 0", "exit 1"} => (db_connection = 0 /\ live = {})

\* while the handle holds a connection no call opens another or puts another
\* in its place; a handle that is unset gets a connection never held before
Reuse ==
    /\ db_connection # 0 =>
          /\ db_connection' \in {db_connection, 0}
          /\ opened' = opened
    /\ (db_connection = 0 /\ db_connection' # 0) =>
          /\ opened' = opened + 1
          /\ db_connection' = opened'
          /\ live' = {db_connection'}

\* C17: after any calls of connect, execute, fetchall, fetchone and close on
\* the shared handle at most one connection is open; connect returns the
\* connection already open and opens no second one; close leaves the handle
\* unset, so that a later connect opens a new connection; whenever the
\* command-line import ends, after a return or a raise of import_csv or
\* before it was called, the connection is closed
C17_ConnectionLifecycle == []OneConnection /\ [][Reuse]_vars

\* the command-line import has ended after import_csv returned: its one
\* connection was opened and is closed
C17_Witness ==
    /\ main_pc = "exit 0"
    /\ opened = 1
    /\ db_connection = 0
    /\ live = {}

====
